---------------------------- MODULE Spec2Model ----------------------------
(***************************************************************************)
(* Control flow of graphgps/train/custom_train.py: the three registered    *)
(* pipelines custom_train ('custom'), inference_only ('inference-only')    *)
(* and ogblsc_inference ('PCQM4Mv2-inference').                            *)
(*                                                                         *)
(* An epoch function (train_epoch, distill_epoch, head_epoch, eval_epoch)  *)
(* is one call recorded in `trace` by the pipelines, and the batch loop of *)
(* train_epoch and head_epoch is unfolded on its own; the body of one pass *)
(* of a loop is one action.  A Python exception (IndexError,            *)
(* ZeroDivisionError, AssertionError) ends the run in pc = "crashed" with  *)
(* the effects made before the raising line kept.                          *)
(*                                                                         *)
(* custom_train is run twice: run 1 is a fresh run (total_epoch = 0), and  *)
(* run 2 is a run with cfg.train.auto_resume started from one of the       *)
(* checkpoints run 1 saved (load_ckpt returns the saved label + 1).        *)
(* cfg.wandb.use and cfg.train.ckpt_clean are off.                         *)
(***************************************************************************)
EXTENDS Integers, Sequences, FiniteSets

VARIABLES
    cfg,            \* the configuration read by the pipeline
    num_splits,     \* len(loggers)
    loaders,        \* per loader, its dataset: the isnan(d.y)[0] flag of each sample
    pc,             \* position of the running function
    run,            \* 1: fresh run, 2: run resumed from a checkpoint of run 1
    total_epoch,    \* custom_train: global epoch counter
    start_epoch,    \* custom_train: start_epoch
    cur_iteration,  \* custom_train: cur_iteration
    cur_epoch,      \* cur_epoch
    i,              \* inference_only, ogblsc_inference: the loop index i
    model,          \* custom_train: the object bound to `model`
    new_model,      \* custom_train: the object bound to `new_model`
    next_id,        \* identity of the next object created
    perf,           \* perf[i + 1] is Python's perf[i]
    saved,          \* save_ckpt calls of this run, in order
    trace,          \* calls made by this run, in order
    sched_steps,    \* scheduler.step() calls of this run
    closed,         \* closed[i + 1]: logger.close() calls on loggers[i]
    log_msg,        \* the message logged at lines 198-201
    error,          \* the exception that ended the run, "" if none
    prev,           \* what run 1 left behind, for run 2
    epoch_fn,       \* the epoch function whose body is unfolded batch by batch
    batch_accumulation, \* train_epoch, head_epoch: the argument of that name
    iter,           \* train_epoch, head_epoch: number of batches processed
    grad,           \* batches whose gradient is accumulated in the parameters
    opt_steps       \* the optimizer.step() calls of the epoch, in order

vars == <<cfg, num_splits, loaders, pc, run, total_epoch, start_epoch,
          cur_iteration, cur_epoch, i, model, new_model, next_id, perf, saved,
          trace, sched_steps, closed, log_msg, error, prev, epoch_fn,
          batch_accumulation, iter, grad, opt_steps>>

\* the state of the batch loop of train_epoch and head_epoch
epoch_vars == <<epoch_fn, batch_accumulation, iter, grad, opt_steps>>

(***************************************************************************)
(* Bounds of the explored configurations.                                  *)
(***************************************************************************)
MaxIter == 2
MaxEpoch == 2
MaxDistill == 2
MaxHead == 1
MaxPeriod == 2
MaxVal == 1
MaxSplits == 4
MaxLoaders == 4
MaxSamples == 2
MaxBatches == 4
MaxAccum == 3

(***************************************************************************)
(* Helpers.                                                                *)
(***************************************************************************)
Last(s) == s[Len(s)]

\* the model objects: id is the object's identity, src the id of the object
\* it was deep-copied from (-1: not a copy), gen the outer iteration that
\* constructed it with GPSSEMModel (-1: the argument of custom_train), and
\* t, d, h the train, distillation (as student) and head epochs applied to
\* its parameters.
NoModel == [id |-> -1, src |-> -1, gen |-> -1, t |-> 0, d |-> 0, h |-> 0]

ArgModel == [id |-> 0, src |-> -1, gen |-> -1, t |-> 0, d |-> 0, h |-> 0]

Call(kind, split, it, ep, m, s) ==
    [kind |-> kind, split |-> split, iter |-> it, epoch |-> ep, m |-> m, s |-> s]

Rec(ep, loss, mv) == [epoch |-> ep, loss |-> loss, m |-> mv]

NoPrev == [pc |-> "", trace |-> <<>>, total_epoch |-> 0, saved |-> <<>>, from |-> -1, pos |-> 0]

\* no epoch function is unfolded: custom_train, inference_only and
\* ogblsc_inference take an epoch function as one call
EpochIdle ==
    /\ epoch_fn = ""
    /\ batch_accumulation = 0
    /\ iter = 0
    /\ grad = <<>>
    /\ opt_steps = <<>>

(***************************************************************************)
(* torch_geometric.graphgym.utils.epoch                                    *)
(***************************************************************************)
is_eval_epoch(e) ==
    \/ (e + 1) % cfg.eval_period = 0
    \/ e = 0
    \/ e + 1 = cfg.max_epoch

is_ckpt_epoch(e) ==
    \/ (e + 1) % cfg.ckpt_period = 0
    \/ e + 1 = cfg.max_epoch

(***************************************************************************)
(* numpy argmin / argmax: the 0-based index of the first best entry.       *)
(***************************************************************************)
argmin(s) ==
    (CHOOSE k \in 1..Len(s) :
        /\ \A j \in 1..Len(s) : s[k] <= s[j]
        /\ \A j \in 1..(k - 1) : s[j] > s[k]) - 1

argmax(s) ==
    (CHOOSE k \in 1..Len(s) :
        /\ \A j \in 1..Len(s) : s[k] >= s[j]
        /\ \A j \in 1..(k - 1) : s[j] < s[k]) - 1

\* lines 266-272: best_epoch over val_perf
BestEpoch(val_perf) ==
    IF cfg.metric_best = "auto"
    THEN argmin([k \in 1..Len(val_perf) |-> val_perf[k].loss])
    ELSE IF cfg.metric_agg = "argmax"
         THEN argmax([k \in 1..Len(val_perf) |-> val_perf[k].m])
         ELSE argmin([k \in 1..Len(val_perf) |-> val_perf[k].m])

(***************************************************************************)
(* custom_train                                                            *)
(***************************************************************************)
split_names == <<"val", "test">>

Configs ==
    [num_iteration : 1..MaxIter,
     max_epoch     : 0..MaxEpoch,
     distill_epoch : 0..MaxDistill,
     head_finetune : 0..MaxHead,
     eval_period   : 1..MaxPeriod,
     ckpt_period   : 1..MaxPeriod,
     enable_ckpt   : BOOLEAN,
     ckpt_best     : BOOLEAN,
     metric_best   : {"auto", "accuracy"},
     metric_agg    : {"argmax", "argmin"}]

\* ckpt_period is read only by the regular checkpoint (257-259), and
\* metric_best / metric_agg only by the best-epoch selection, whose effect
\* is the ckpt_best save (266-299): each is varied where it is read
CustomConfigs ==
    {c \in Configs :
        /\ c.metric_best = "auto" => c.metric_agg = "argmax"
        /\ ~c.enable_ckpt => ~c.ckpt_best
        /\ ~(c.enable_ckpt /\ ~c.ckpt_best) => c.ckpt_period = 1
        /\ ~c.ckpt_best => c.metric_best = "auto"}

Init ==
    /\ cfg \in CustomConfigs
    /\ num_splits \in 1..MaxSplits
    /\ loaders = <<>>
    /\ pc = "start"
    /\ run = 1
    /\ total_epoch = 0
    /\ start_epoch = 0
    /\ cur_iteration = 0
    /\ cur_epoch = 0
    /\ i = 0
    /\ model = ArgModel
    /\ new_model = NoModel
    /\ next_id = 1
    /\ perf = [x \in 1..num_splits |-> <<>>]
    /\ saved = <<>>
    /\ trace = <<>>
    /\ sched_steps = 0
    /\ closed = [x \in 1..num_splits |-> 0]
    /\ log_msg = ""
    /\ error = ""
    /\ prev = NoPrev
    /\ EpochIdle

\* lines 229-230 with the loaded epoch ignored: range(0, num_iteration)
StartFromIterationZero ==
    /\ pc = "start"
    /\ LET loaded == IF run = 1 THEN 0 ELSE prev.from + 1
           period == cfg.max_epoch + cfg.distill_epoch
       IN  /\ total_epoch' = loaded
           /\ log_msg' = IF loaded = cfg.num_iteration * period
                         THEN "Checkpoint found, Task already done"
                         ELSE "Start from epoch"
           /\ IF period = 0
              THEN /\ pc' = "crashed"
                   /\ error' = "ZeroDivisionError"
                   /\ UNCHANGED <<cur_iteration, start_epoch>>
              ELSE /\ pc' = "iteration"
                   /\ error' = ""
                   /\ cur_iteration' = 0
                   /\ start_epoch' = 0
    /\ UNCHANGED <<epoch_vars, cfg, num_splits, loaders, i, run, cur_epoch, model, new_model,
                   next_id, perf, saved, trace, sched_steps, closed, prev>>

\* lines 194-230.  load_ckpt returns 0 when there is no checkpoint (run 1)
\* and the label of the loaded checkpoint + 1 otherwise (run 2).
Start ==
    /\ pc = "start"
    /\ LET loaded == IF run = 1 THEN 0 ELSE prev.from + 1
           period == cfg.max_epoch + cfg.distill_epoch
       IN  /\ total_epoch' = loaded
           /\ log_msg' = IF loaded = cfg.num_iteration * period
                         THEN "Checkpoint found, Task already done"
                         ELSE "Start from epoch"
           /\ IF period = 0
              THEN /\ pc' = "crashed"
                   /\ error' = "ZeroDivisionError"
                   /\ UNCHANGED <<cur_iteration, start_epoch>>
              ELSE /\ pc' = "iteration"
                   /\ error' = ""
                   /\ cur_iteration' = loaded \div period
                   /\ start_epoch' = loaded % period
    /\ UNCHANGED <<epoch_vars, cfg, num_splits, loaders, i, run, cur_epoch, model, new_model,
                   next_id, perf, saved, trace, sched_steps, closed, prev>>

\* the statements of the body of the outer loop, in program order: the
\* training loop (235-317), the construction of the student (328-347), the
\* distillation loop (348-359), the head fine-tuning loop (361-364) and the
\* hand-over of the student (366-371)
PhaseOrder == <<"train", "new_student", "distill", "head", "end_iteration">>

\* the head fine-tuning loop placed before the distillation loop
NextPhaseHeadFirst(p) ==
    LET order == <<"train", "new_student", "head", "distill", "end_iteration">>
    IN  order[(CHOOSE k \in 1..Len(order) : order[k] = p) + 1]

NextPhase(p) ==
    PhaseOrder[(CHOOSE k \in 1..Len(PhaseOrder) : PhaseOrder[k] = p) + 1]

\* lines 231-235: the head of the outer loop and the guard of the training phase
Iteration ==
    /\ pc = "iteration"
    /\ cur_iteration < cfg.num_iteration
    /\ IF cfg.distill_epoch = 0 \/ cur_iteration # 0
       THEN pc' = "train" /\ cur_epoch' = start_epoch
       ELSE pc' = NextPhase("train") /\ UNCHANGED cur_epoch
    /\ UNCHANGED <<epoch_vars, cfg, num_splits, loaders, i, run, total_epoch, start_epoch,
                   cur_iteration, model, new_model, next_id, perf, saved, trace,
                   sched_steps, closed, log_msg, error, prev>>

\* line 237 (train_epoch) and lines 239-317: one pass of the training loop.
\* v is the validation result eval_epoch measures (the loss under
\* metric_best = 'auto', the metric otherwise; the other field is not read).
TrainBody(v) ==
    LET e == total_epoch
        isEval == is_eval_epoch(e)
        modelT == [model EXCEPT !.t = @ + 1]
        nEval == IF num_splits - 1 < Len(split_names)
                 THEN num_splits - 1 ELSE Len(split_names)
        valrec == IF cfg.metric_best = "auto" THEN Rec(e, v, 0) ELSE Rec(e, 0, v)
        \* 237-239
        trT == Append(trace, Call("train", "train", cur_iteration, e, model, NoModel))
        perfT == [perf EXCEPT ![1] = Append(@, Rec(e, 0, 0))]
        \* 241-245: split_names[i - 1] raises IndexError for i - 1 >= 2
        evals == [k \in 1..nEval |->
                    Call("eval", split_names[k], cur_iteration, e, modelT, NoModel)]
        perfE == [x \in 1..num_splits |->
                    IF x = 1 THEN perfT[1]
                    ELSE IF x - 1 <= nEval
                         THEN Append(perf[x], IF x = 2 THEN valrec ELSE Rec(e, 0, 0))
                         ELSE perf[x]]
        \* 246-248: perf[i][-1] raises IndexError on an empty list
        empties == {x \in 2..num_splits : perf[x] = <<>>}
        firstEmpty == CHOOSE x \in empties : \A j \in empties : x <= j
        perfR == [x \in 1..num_splits |->
                    IF x = 1 THEN perfT[1]
                    ELSE IF empties = {} \/ x < firstEmpty
                         THEN Append(perf[x], Last(perf[x]))
                         ELSE perf[x]]
        crash248 == IF isEval THEN num_splits - 1 > Len(split_names)
                    ELSE empties # {}
        perfB == IF isEval THEN perfE ELSE perfR
        traceB == IF isEval THEN trT \o evals ELSE trT
        \* 250: val_perf = perf[1]
        crash250 == num_splits < 2
        \* 257-259
        regular == cfg.enable_ckpt /\ ~cfg.ckpt_best /\ is_ckpt_epoch(e)
        savedR == IF regular
                  THEN Append(saved, [epoch |-> e, pos |-> Len(traceB)])
                  ELSE saved
        \* 265-280: perf[2][best_epoch] is read when metric_best is set
        best_epoch == BestEpoch(perfB[2])
        crash280 == isEval /\ cfg.metric_best # "auto" /\ num_splits < 3
        \* 297-299
        best == isEval /\ cfg.enable_ckpt /\ cfg.ckpt_best /\ best_epoch = e
        savedB == IF best
                  THEN Append(savedR, [epoch |-> e, pos |-> Len(traceB)])
                  ELSE savedR
        \* 302-308: the log line reads perf[2][best_epoch]
        crash308 == isEval /\ num_splits < 3
    IN  /\ model' = modelT
        /\ trace' = traceB
        /\ perf' = perfB
        /\ IF crash248 \/ crash250
           THEN /\ pc' = "crashed" /\ error' = "IndexError"
                /\ UNCHANGED <<sched_steps, saved, total_epoch, cur_epoch>>
           ELSE /\ sched_steps' = sched_steps + 1
                /\ IF crash280
                   THEN /\ pc' = "crashed" /\ error' = "IndexError"
                        /\ saved' = savedR
                        /\ UNCHANGED <<total_epoch, cur_epoch>>
                   ELSE /\ saved' = savedB
                        /\ IF crash308
                           THEN /\ pc' = "crashed" /\ error' = "IndexError"
                                /\ UNCHANGED <<total_epoch, cur_epoch>>
                           ELSE /\ total_epoch' = total_epoch + 1
                                /\ cur_epoch' = cur_epoch + 1
                                /\ UNCHANGED <<pc, error>>

\* the validation results eval_epoch can measure; the result is read only
\* by the best-epoch selection, so it is varied under ckpt_best
ValResults == IF cfg.ckpt_best THEN 0..MaxVal ELSE {0}

TrainEpoch ==
    /\ pc = "train"
    /\ cur_epoch < cfg.max_epoch
    /\ \E v \in ValResults : TrainBody(v)
    /\ UNCHANGED <<epoch_vars, cfg, num_splits, loaders, i, run, start_epoch, cur_iteration,
                   new_model, next_id, closed, log_msg, prev>>

\* line 235: range(start_epoch, max_epoch) is exhausted
TrainDone ==
    /\ pc = "train"
    /\ cur_epoch >= cfg.max_epoch
    /\ pc' = NextPhase("train")
    /\ UNCHANGED <<epoch_vars, cfg, num_splits, loaders, i, run, total_epoch, start_epoch,
                   cur_iteration, cur_epoch, model, new_model, next_id, perf,
                   saved, trace, sched_steps, closed, log_msg, error, prev>>

\* line 328
DistillStart(se) == IF se > cfg.max_epoch THEN se ELSE 0

\* lines 328-348: start_epoch is adjusted, the student is constructed and
\* the distillation loop is entered
NewStudent ==
    /\ pc = "new_student"
    /\ start_epoch' = DistillStart(start_epoch)
    /\ new_model' = [id |-> next_id, src |-> -1, gen |-> cur_iteration,
                     t |-> 0, d |-> 0, h |-> 0]
    /\ next_id' = next_id + 1
    /\ trace' = Append(trace, Call("new", "", cur_iteration, total_epoch,
                                   model, new_model'))
    /\ pc' = NextPhase("new_student")
    /\ cur_epoch' = start_epoch'
    /\ UNCHANGED <<epoch_vars, cfg, num_splits, loaders, i, run, total_epoch, cur_iteration,
                   model, perf, saved, sched_steps, closed, log_msg, error, prev>>

\* lines 111-139: distill_epoch(logger, loader, student, teacher, ...) steps
\* the optimizer of the student; the teacher is only evaluated
distill_epoch(student, teacher) ==
    [call |-> Call("distill", "train", cur_iteration, total_epoch, teacher, student),
     student |-> [student EXCEPT !.d = @ + 1]]

\* lines 348-359: one pass of the distillation loop
DistillEpoch ==
    /\ pc = "distill"
    /\ cur_epoch < cfg.distill_epoch
    /\ LET r == distill_epoch(new_model, model)
       IN  /\ trace' = Append(trace, r.call)
           /\ new_model' = r.student
    /\ total_epoch' = total_epoch + 1
    /\ cur_epoch' = cur_epoch + 1
    /\ UNCHANGED <<epoch_vars, cfg, num_splits, loaders, i, pc, run, start_epoch, cur_iteration,
                   model, next_id, perf, saved, sched_steps, closed, log_msg,
                   error, prev>>

\* lines 348, 361-362: the distillation loop is exhausted
DistillDone ==
    /\ pc = "distill"
    /\ cur_epoch >= cfg.distill_epoch
    /\ pc' = NextPhase("distill")
    /\ cur_epoch' = start_epoch
    /\ UNCHANGED <<epoch_vars, cfg, num_splits, loaders, i, run, total_epoch, start_epoch,
                   cur_iteration, model, new_model, next_id, perf, saved, trace,
                   sched_steps, closed, log_msg, error, prev>>

\* lines 362-364: one pass of the head fine-tuning loop
HeadEpoch ==
    /\ pc = "head"
    /\ cur_epoch < cfg.head_finetune
    /\ trace' = Append(trace, Call("head", "train", cur_iteration, total_epoch,
                                   NoModel, new_model))
    /\ new_model' = [new_model EXCEPT !.h = @ + 1]
    /\ cur_epoch' = cur_epoch + 1
    /\ UNCHANGED <<epoch_vars, cfg, num_splits, loaders, i, pc, run, total_epoch, start_epoch,
                   cur_iteration, model, next_id, perf, saved, sched_steps,
                   closed, log_msg, error, prev>>

\* line 362: the head fine-tuning loop is exhausted
HeadDone ==
    /\ pc = "head"
    /\ cur_epoch >= cfg.head_finetune
    /\ pc' = NextPhase("head")
    /\ UNCHANGED <<epoch_vars, cfg, num_splits, loaders, i, run, total_epoch, start_epoch,
                   cur_iteration, cur_epoch, model, new_model, next_id, perf,
                   saved, trace, sched_steps, closed, log_msg, error, prev>>

\* line 366 without the deepcopy: model = new_model
EndIterationAlias ==
    /\ pc = "end_iteration"
    /\ model' = new_model
    /\ start_epoch' = 0
    /\ cur_iteration' = cur_iteration + 1
    /\ pc' = "iteration"
    /\ UNCHANGED <<epoch_vars, cfg, num_splits, loaders, i, run, total_epoch, cur_epoch,
                   new_model, next_id, perf, saved, trace, sched_steps, closed,
                   log_msg, error, prev>>

\* lines 366-371: the student becomes the model of the next iteration
EndIteration ==
    /\ pc = "end_iteration"
    /\ model' = [new_model EXCEPT !.id = next_id, !.src = new_model.id]
    /\ next_id' = next_id + 1
    /\ start_epoch' = 0
    /\ cur_iteration' = cur_iteration + 1
    /\ pc' = "iteration"
    /\ UNCHANGED <<epoch_vars, cfg, num_splits, loaders, i, run, total_epoch, cur_epoch,
                   new_model, perf, saved, trace, sched_steps, closed, log_msg,
                   error, prev>>

\* lines 231, 374-383: the outer loop is exhausted and the loggers are closed
Finish ==
    /\ pc = "iteration"
    /\ cur_iteration >= cfg.num_iteration
    /\ closed' = [x \in 1..num_splits |-> closed[x] + 1]
    /\ pc' = "done"
    /\ UNCHANGED <<epoch_vars, cfg, num_splits, loaders, i, run, total_epoch, start_epoch,
                   cur_iteration, cur_epoch, model, new_model, next_id, perf,
                   saved, trace, sched_steps, log_msg, error, prev>>

\* a second process is started with cfg.train.auto_resume and
\* cfg.train.epoch_resume naming a checkpoint the first one saved
Resume ==
    /\ run = 1
    /\ pc \in {"done", "crashed"}
    /\ \E k \in 1..Len(saved) :
          prev' = [pc |-> pc, trace |-> trace, total_epoch |-> total_epoch,
                   saved |-> saved, from |-> saved[k].epoch, pos |-> saved[k].pos]
    /\ run' = 2
    /\ pc' = "start"
    /\ total_epoch' = 0
    /\ start_epoch' = 0
    /\ cur_iteration' = 0
    /\ cur_epoch' = 0
    /\ model' = ArgModel
    /\ new_model' = NoModel
    /\ next_id' = 1
    /\ perf' = [x \in 1..num_splits |-> <<>>]
    /\ saved' = <<>>
    /\ trace' = <<>>
    /\ sched_steps' = 0
    /\ closed' = [x \in 1..num_splits |-> 0]
    /\ log_msg' = ""
    /\ error' = ""
    /\ UNCHANGED <<epoch_vars, cfg, num_splits, loaders, i>>

Next ==
    \/ Start
    \/ Iteration
    \/ TrainEpoch
    \/ TrainDone
    \/ NewStudent
    \/ DistillEpoch
    \/ DistillDone
    \/ HeadEpoch
    \/ HeadDone
    \/ EndIteration
    \/ Finish
    \/ Resume

Spec == Init /\ [][Next]_vars

\* the runs that checkpoint with regular frequency or not at all: with
\* ckpt_period = 1 every train epoch of run 1 is a point run 2 resumes from
InitRegular == Init /\ ~cfg.ckpt_best

SpecRegular == InitRegular /\ [][Next]_vars

(***************************************************************************)
(* inference_only                                                          *)
(***************************************************************************)
\* a dataset of 1..MaxSamples samples, each with its isnan(d.y)[0] flag; a
\* loader yields one batch per sample
Datasets == UNION {[1..n -> BOOLEAN] : n \in 1..MaxSamples}

LabelledDatasets == UNION {[1..n -> {FALSE}] : n \in 1..MaxSamples}

\* line 399
inference_split_names == <<"train", "val", "test">>

\* the configuration fields inference_only reads: cfg.metric_best
InferenceConfigs ==
    {c \in Configs :
        /\ c.num_iteration = 1 /\ c.max_epoch = 0 /\ c.distill_epoch = 0
        /\ c.head_finetune = 0 /\ c.eval_period = 1 /\ c.ckpt_period = 1
        /\ ~c.enable_ckpt /\ ~c.ckpt_best /\ c.metric_agg = "argmax"}

InitInference ==
    /\ cfg \in InferenceConfigs
    /\ num_splits \in 1..MaxSplits
    /\ loaders \in [1..num_splits -> LabelledDatasets]
    /\ pc = "inference_eval"
    /\ run = 1
    /\ total_epoch = 0
    /\ start_epoch = 0
    /\ cur_iteration = 0
    /\ cur_epoch = 0
    /\ i = 0
    /\ model = ArgModel
    /\ new_model = NoModel
    /\ next_id = 1
    /\ perf = [k \in 1..num_splits |-> <<>>]
    /\ saved = <<>>
    /\ trace = <<>>
    /\ sched_steps = 0
    /\ closed = [k \in 1..num_splits |-> 0]
    /\ log_msg = ""
    /\ error = ""
    /\ prev = NoPrev
    /\ EpochIdle

\* lines 151-178: eval_epoch runs the model once on every batch of the
\* loader and steps neither the optimizer nor the scheduler
eval_epoch(loader, m, split) ==
    <<Call("eval", split, 0, cur_epoch, m, NoModel)>> \o
    [b \in 1..Len(loader) |-> Call("forward", split, 0, cur_epoch, m, NoModel)]

\* lines 404-407: one pass of the loop over the splits; split_names[i]
\* raises IndexError for i >= 3
InferenceEval ==
    /\ pc = "inference_eval"
    /\ i < num_splits
    /\ IF i + 1 > Len(inference_split_names)
       THEN /\ pc' = "crashed" /\ error' = "IndexError"
            /\ UNCHANGED <<trace, perf, i>>
       ELSE /\ trace' = trace \o eval_epoch(loaders[i + 1], model,
                                            inference_split_names[i + 1])
            /\ perf' = [perf EXCEPT ![i + 1] = Append(@, Rec(cur_epoch, 0, 0))]
            /\ i' = i + 1
            /\ UNCHANGED <<pc, error>>
    /\ UNCHANGED <<epoch_vars, cfg, num_splits, loaders, run, total_epoch, start_epoch,
                   cur_iteration, cur_epoch, model, new_model, next_id, saved,
                   sched_steps, closed, log_msg, prev>>

\* lines 409-429: the summary reads perf[0], perf[1] and perf[2]
InferenceReport ==
    /\ pc = "inference_eval"
    /\ i >= num_splits
    /\ IF num_splits < 3
       THEN pc' = "crashed" /\ error' = "IndexError"
       ELSE pc' = "inference_close" /\ UNCHANGED error
    /\ UNCHANGED <<epoch_vars, cfg, num_splits, loaders, i, run, total_epoch, start_epoch,
                   cur_iteration, cur_epoch, model, new_model, next_id, perf,
                   saved, trace, sched_steps, closed, log_msg, prev>>

\* lines 430-431
InferenceClose ==
    /\ pc = "inference_close"
    /\ closed' = [k \in 1..num_splits |-> closed[k] + 1]
    /\ pc' = "done"
    /\ UNCHANGED <<epoch_vars, cfg, num_splits, loaders, i, run, total_epoch, start_epoch,
                   cur_iteration, cur_epoch, model, new_model, next_id, perf,
                   saved, trace, sched_steps, log_msg, error, prev>>

NextInference ==
    \/ InferenceEval
    \/ InferenceReport
    \/ InferenceClose

SpecInference == InitInference /\ [][NextInference]_vars

(***************************************************************************)
(* ogblsc_inference                                                        *)
(***************************************************************************)
\* line 449
ogb_num_splits == 3

\* line 450
ogb_split_names == <<"valid", "test-dev", "test-challenge">>

InitOgb ==
    /\ cfg \in {c \in InferenceConfigs : c.metric_best = "auto"}
    /\ num_splits = ogb_num_splits
    /\ loaders \in UNION {[1..n -> Datasets] : n \in 1..MaxLoaders}
    /\ pc = "ogb_check"
    /\ run = 1
    /\ total_epoch = 0
    /\ start_epoch = 0
    /\ cur_iteration = 0
    /\ cur_epoch = 0
    /\ i = 0
    /\ model = ArgModel
    /\ new_model = NoModel
    /\ next_id = 1
    /\ perf = [k \in 1..num_splits |-> <<>>]
    /\ saved = <<>>
    /\ trace = <<>>
    /\ sched_steps = 0
    /\ closed = [k \in 1..num_splits |-> 0]
    /\ log_msg = ""
    /\ error = ""
    /\ prev = NoPrev
    /\ EpochIdle

\* the assertion on split 2 (line 459) left out
OgbAssertionsTwoSplits(ls) ==
    /\ Len(ls) = ogb_num_splits
    /\ \A d \in 1..Len(ls[1]) : ~ls[1][d]
    /\ \A d \in 1..Len(ls[2]) : ls[2][d]

\* lines 451-459: the four assertions, in order
OgbAssertions(ls) ==
    /\ Len(ls) = ogb_num_splits
    /\ \A d \in 1..Len(ls[1]) : ~ls[1][d]
    /\ \A d \in 1..Len(ls[2]) : ls[2][d]
    /\ \A d \in 1..Len(ls[3]) : ls[3][d]

\* lines 446-461
OgbCheck ==
    /\ pc = "ogb_check"
    /\ IF OgbAssertions(loaders)
       THEN pc' = "ogb_split" /\ UNCHANGED error
       ELSE pc' = "crashed" /\ error' = "AssertionError"
    /\ UNCHANGED <<epoch_vars, cfg, num_splits, loaders, i, run, total_epoch, start_epoch,
                   cur_iteration, cur_epoch, model, new_model, next_id, perf,
                   saved, trace, sched_steps, closed, log_msg, prev>>

\* lines 463-481: one pass of the loop over the splits
OgbSplit ==
    /\ pc = "ogb_split"
    /\ i < ogb_num_splits
    /\ LET name == ogb_split_names[i + 1]
           forwards == [b \in 1..Len(loaders[i + 1]) |->
                           Call("forward", name, 0, 0, model, NoModel)]
           result == IF i = 0
                     THEN Call("eval_mae", name, 0, 0, model, NoModel)
                     ELSE Call("save_test_submission", name, 0, 0, model, NoModel)
       IN  trace' = (trace \o forwards) \o <<result>>
    /\ i' = i + 1
    /\ UNCHANGED <<epoch_vars, cfg, num_splits, loaders, pc, run, total_epoch, start_epoch,
                   cur_iteration, cur_epoch, model, new_model, next_id, perf,
                   saved, sched_steps, closed, log_msg, error, prev>>

\* line 462: range(num_splits) is exhausted
OgbDone ==
    /\ pc = "ogb_split"
    /\ i >= ogb_num_splits
    /\ pc' = "done"
    /\ UNCHANGED <<epoch_vars, cfg, num_splits, loaders, i, run, total_epoch, start_epoch,
                   cur_iteration, cur_epoch, model, new_model, next_id, perf,
                   saved, trace, sched_steps, closed, log_msg, error, prev>>

NextOgb ==
    \/ OgbCheck
    \/ OgbSplit
    \/ OgbDone

SpecOgb == InitOgb /\ [][NextOgb]_vars

(***************************************************************************)
(* train_epoch and head_epoch: the batch loop                              *)
(***************************************************************************)
EpochFunctions == {"train_epoch", "head_epoch"}

\* the configuration field the batch loop branches on: cfg.optim.clip_grad_norm
EpochConfigs == [clip_grad_norm : BOOLEAN]

\* a loader of 1..MaxBatches batches
EpochLoaders == UNION {[1..n -> {FALSE}] : n \in 1..MaxBatches}

\* the function is entered with its loader, its batch_accumulation >= 1 and
\* an optimizer whose parameters may still hold the gradient of an earlier
\* backward pass (written as batch 0)
InitEpoch ==
    /\ cfg \in EpochConfigs
    /\ num_splits = 1
    /\ loaders \in {<<d>> : d \in EpochLoaders}
    /\ pc = "epoch_start"
    /\ run = 1
    /\ total_epoch = 0
    /\ start_epoch = 0
    /\ cur_iteration = 0
    /\ cur_epoch = 0
    /\ i = 0
    /\ model = ArgModel
    /\ new_model = NoModel
    /\ next_id = 1
    /\ perf = [k \in 1..num_splits |-> <<>>]
    /\ saved = <<>>
    /\ trace = <<>>
    /\ sched_steps = 0
    /\ closed = [k \in 1..num_splits |-> 0]
    /\ log_msg = ""
    /\ error = ""
    /\ prev = NoPrev
    /\ epoch_fn \in EpochFunctions
    /\ batch_accumulation \in 1..MaxAccum
    /\ iter = 0
    /\ grad \in {<<>>, <<0>>}
    /\ opt_steps = <<>>

\* lines 39-40 and 72-73: model.train(); optimizer.zero_grad()
EpochStart ==
    /\ pc = "epoch_start"
    /\ grad' = <<>>
    /\ iter' = 0
    /\ pc' = "epoch_loop"
    /\ UNCHANGED <<cfg, num_splits, loaders, run, total_epoch, start_epoch,
                   cur_iteration, cur_epoch, i, model, new_model, next_id,
                   perf, saved, trace, sched_steps, closed, log_msg, error,
                   prev, epoch_fn, batch_accumulation, opt_steps>>

\* the parameters are updated only after every full group of batches
UpdateAfterFullOnly(it, n, a) == (it + 1) % a = 0

\* lines 56 and 96: the parameters are updated after batch `it` (0-based)
UpdateAfter(it, n, a) == ((it + 1) % a = 0) \/ (it + 1 = n)

\* lines 45 and 79-86: the forward passes of one batch
Forward(fn, it) ==
    IF fn = "train_epoch"
    THEN <<Call("forward", "train", 0, it, model, NoModel)>>
    ELSE <<Call("forward_unnormalize_sem", "train", 0, it, model, NoModel),
           Call("post_mp", "train", 0, it, model, NoModel)>>

\* lines 42-68 and 75-108: the body of the loop for one batch.  loss.backward()
\* adds the gradient of the batch to the accumulated one; an update clips
\* the gradient if configured, steps the optimizer and zeroes the gradient.
EpochBatch ==
    /\ pc = "epoch_loop"
    /\ iter < Len(loaders[1])
    /\ LET g == Append(grad, iter + 1)
       IN  IF UpdateAfter(iter, Len(loaders[1]), batch_accumulation)
           THEN /\ opt_steps' = Append(opt_steps,
                                       [batches |-> g,
                                        clipped |-> cfg.clip_grad_norm,
                                        after |-> iter + 1])
                /\ grad' = <<>>
           ELSE /\ grad' = g
                /\ UNCHANGED opt_steps
    /\ trace' = trace \o Forward(epoch_fn, iter) \o
                <<Call("update_stats", "train", 0, iter, NoModel, NoModel)>>
    /\ iter' = iter + 1
    /\ UNCHANGED <<cfg, num_splits, loaders, pc, run, total_epoch, start_epoch,
                   cur_iteration, cur_epoch, i, model, new_model, next_id,
                   perf, saved, sched_steps, closed, log_msg, error, prev,
                   epoch_fn, batch_accumulation>>

\* the loader is exhausted: the function returns
EpochDone ==
    /\ pc = "epoch_loop"
    /\ iter >= Len(loaders[1])
    /\ pc' = "done"
    /\ UNCHANGED <<epoch_vars, cfg, num_splits, loaders, run, total_epoch,
                   start_epoch, cur_iteration, cur_epoch, i, model, new_model,
                   next_id, perf, saved, trace, sched_steps, closed, log_msg,
                   error, prev>>

NextEpoch ==
    \/ EpochStart
    \/ EpochBatch
    \/ EpochDone

SpecEpoch == InitEpoch /\ [][NextEpoch]_vars

(***************************************************************************)
(* Properties of custom_train.                                             *)
(***************************************************************************)
EpochKinds == {"train", "distill", "head"}

IsEpochCall(c) == c.kind \in EpochKinds

\* the sequence of train / distill / head epochs of a call sequence
Epochs(s) == SelectSeq(s, IsEpochCall)

Kinds(s) == [k \in 1..Len(s) |-> s[k].kind]

\* positions of the calls of one kind made in one outer iteration
Calls(kind, k) ==
    {p \in 1..Len(trace) : trace[p].kind = kind /\ trace[p].iter = k}

Count(kind, k) == Cardinality(Calls(kind, k))

PhaseRank(kind) ==
    CASE kind = "train" -> 1
      [] kind = "eval" -> 1
      [] kind = "new" -> 2
      [] kind = "distill" -> 2
      [] kind = "head" -> 3

\* C1: within every outer iteration the epochs run in the order train,
\* distill, head (no train_epoch after a distill_epoch, no distill_epoch
\* after a head_epoch of the same iteration), and no call of a later
\* iteration precedes a call of an earlier one.
C1_PhaseOrder ==
    \A p, q \in 1..Len(trace) :
        (p < q /\ IsEpochCall(trace[p]) /\ IsEpochCall(trace[q])) =>
            /\ trace[p].iter <= trace[q].iter
            /\ trace[p].iter = trace[q].iter =>
                  PhaseRank(trace[p].kind) <= PhaseRank(trace[q].kind)

\* a finished run whose iteration 1 ran train, distill and head epochs
\* after iteration 0 ran distill and head epochs
C1_Witness ==
    /\ pc = "done"
    /\ Count("distill", 0) > 0 /\ Count("head", 0) > 0
    /\ Count("train", 1) > 1 /\ Count("distill", 1) > 1 /\ Count("head", 1) > 0

\* custom_train is called with the loggers of the splits train, val, test
ThreeSplits == num_splits = 3

\* C2: with three splits, a fresh run that finishes has executed, in every one of its
\* num_iteration iterations, exactly max_epoch train epochs, distill_epoch
\* distillation epochs and head_finetune head epochs.
C2_EpochsPerIteration ==
    (ThreeSplits /\ run = 1 /\ pc = "done") =>
        \A k \in 0..(cfg.num_iteration - 1) :
            /\ Count("train", k) = cfg.max_epoch
            /\ Count("distill", k) = cfg.distill_epoch
            /\ Count("head", k) = cfg.head_finetune

\* the student constructed in outer iteration k, as the constructor call
\* recorded it
StudentOf(k) == trace[CHOOSE p \in Calls("new", k) : TRUE].s

C4_ResumeEquivalent ==
    (ThreeSplits /\ run = 2 /\ prev.pc = "done" /\ pc = "done") =>
        /\ Kinds(Epochs(trace)) =
              Kinds(Epochs(SubSeq(prev.trace, prev.pos + 1, Len(prev.trace))))
        /\ total_epoch = prev.total_epoch

\* val_perf[a] is strictly better than val_perf[b]
Better(a, b) ==
    IF cfg.metric_best = "auto" THEN a.loss < b.loss
    ELSE IF cfg.metric_agg = "argmax" THEN a.m > b.m
         ELSE a.m < b.m

SavedLabels == {saved[k].epoch : k \in 1..Len(saved)}

\* C5: with three splits, enable_ckpt and ckpt_best, every completed evaluation epoch
\* whose validation result is strictly better than that of every earlier
\* epoch of the run has called save_ckpt with its total_epoch.
C5_BestCheckpoint ==
    (ThreeSplits /\ cfg.enable_ckpt /\ cfg.ckpt_best) =>
        \A j \in 1..Len(perf[2]) :
            ( /\ perf[2][j].epoch < total_epoch
              /\ is_eval_epoch(perf[2][j].epoch)
              /\ \A k \in 1..(j - 1) : Better(perf[2][j], perf[2][k]) )
            => perf[2][j].epoch \in SavedLabels

\* C6: with three splits, a fresh run that finishes its schedule ends with total_epoch equal to
\* num_iteration * (max_epoch + distill_epoch), the value of the
\* 'Task already done' test.
C6_FinalTotalEpoch ==
    (ThreeSplits /\ run = 1 /\ pc = "done") =>
        total_epoch = cfg.num_iteration * (cfg.max_epoch + cfg.distill_epoch)

\* the value of total_epoch when the run started
LoadedEpoch == IF run = 1 THEN 0 ELSE prev.from + 1

\* C7: with three splits, enable_ckpt and without ckpt_best, a finished run has called
\* save_ckpt with every label e at which it ran an epoch and for which
\* is_ckpt_epoch(e) holds, and with no label for which it does not hold.
C7_RegularCheckpoint ==
    (ThreeSplits /\ cfg.enable_ckpt /\ ~cfg.ckpt_best) =>
        /\ pc = "done" =>
              \A e \in LoadedEpoch..(total_epoch - 1) :
                  is_ckpt_epoch(e) => e \in SavedLabels
        /\ \A e \in SavedLabels : is_ckpt_epoch(e)

\* the epoch at which the run resumed lies d epochs inside the distillation
\* phase of iteration k
ResumedInDistill(k, d) ==
    /\ ThreeSplits
    /\ run = 2
    /\ pc # "start"
    /\ LoadedEpoch = k * (cfg.max_epoch + cfg.distill_epoch) + cfg.max_epoch + d
    /\ 0 < d /\ d < cfg.distill_epoch

\* C10: with three splits, a run resumed d epochs inside the distillation phase of iteration k
\* runs no train epoch and exactly distill_epoch - d distillation epochs in
\* iteration k, and every later iteration starts from epoch 0.
C10_ResumeInDistill ==
    \A k \in 0..MaxIter : \A d \in 1..MaxDistill :
        (ResumedInDistill(k, d) /\ pc # "crashed") =>
            /\ Count("train", k) = 0
            /\ cur_iteration > k =>
                  /\ Count("distill", k) = cfg.distill_epoch - d
                  /\ start_epoch = 0

\* the run was resumed at the epoch at which the whole schedule is finished
TaskAlreadyDone ==
    /\ run = 2
    /\ cfg.max_epoch + cfg.distill_epoch > 0
    /\ LoadedEpoch = cfg.num_iteration * (cfg.max_epoch + cfg.distill_epoch)

\* C11: a run resumed at epoch num_iteration * (max_epoch + distill_epoch),
\* with max_epoch + distill_epoch > 0, logs "Task already done", calls no
\* epoch function (train, eval, distill, head), saves no checkpoint, never
\* fails, can only go on to close the loggers, and has closed every logger
\* exactly once when it ends.
C11_TaskAlreadyDone ==
    (TaskAlreadyDone /\ pc # "start") =>
        /\ log_msg = "Checkpoint found, Task already done"
        /\ trace = <<>>
        /\ saved = <<>>
        /\ pc \in {"iteration", "done"}
        /\ pc = "iteration" =>
              /\ cur_iteration >= cfg.num_iteration
              /\ \A x \in 1..num_splits : closed[x] = 0
        /\ pc = "done" => \A x \in 1..num_splits : closed[x] = 1

\* a resumed run of a finished task has ended, with its loggers closed
C11_Witness ==
    /\ TaskAlreadyDone
    /\ pc = "done"
    /\ prev.pc = "done"
    /\ prev.trace # <<>>
    /\ \A x \in 1..num_splits : closed[x] = 1

IsTrainCall(c) == c.kind = "train"

\* the train_epoch calls of this run, in order
TrainCalls == SelectSeq(trace, IsTrainCall)

\* eval_epoch was called on the split of perf[x - 1] at epoch e
Evaluated(x, e) ==
    \E j \in 1..Len(trace) :
        /\ trace[j].kind = "eval"
        /\ trace[j].split = split_names[x - 1]
        /\ trace[j].epoch = e

\* C13: with the three splits, for the k-th training epoch of a run, at
\* epoch e: eval_epoch is run on val and on test exactly if is_eval_epoch(e);
\* the k-th record of each of these splits is then the one written at e, and
\* otherwise it is a repetition of the (k-1)-th record; eval_epoch is run at
\* no other epoch; and after every completed training epoch perf[0], perf[1]
\* and perf[2] have as many records as training epochs were executed.
C13_PeriodicEvaluation ==
    ThreeSplits =>
        /\ \A k \in 1..Len(TrainCalls) : \A x \in 2..3 :
               LET e == TrainCalls[k].epoch
               IN  /\ Evaluated(x, e) <=> is_eval_epoch(e)
                   /\ k <= Len(perf[x])
                   /\ is_eval_epoch(e) => perf[x][k].epoch = e
                   /\ ~is_eval_epoch(e) => (k > 1 /\ perf[x][k] = perf[x][k - 1])
        /\ \A j \in 1..Len(trace) :
               trace[j].kind = "eval" =>
                   \E k \in 1..Len(TrainCalls) : TrainCalls[k].epoch = trace[j].epoch
        /\ pc # "crashed" =>
               \A x \in 1..3 : Len(perf[x]) = Len(TrainCalls)

(***************************************************************************)
(* Properties of inference_only and ogblsc_inference.                      *)
(***************************************************************************)
\* the splits of the eval_epoch calls made so far, in order
EvaluatedSplits ==
    LET IsEval(c) == c.kind = "eval"
        ev == SelectSeq(trace, IsEval)
    IN  [k \in 1..Len(ev) |-> ev[k].split]

\* C8: inference_only evaluates the len(loggers) splits once each in the
\* order train, val, test, writes every record with epoch 0, steps neither
\* optimizer nor scheduler, and ends with every logger closed exactly once,
\* no logger being closed before all splits have been evaluated.
C8_InferenceOnly ==
    /\ sched_steps = 0
    /\ \A p \in 1..Len(trace) : ~IsEpochCall(trace[p])
    /\ i <= Len(inference_split_names) =>
          EvaluatedSplits = SubSeq(inference_split_names, 1, i)
    /\ \A k \in 1..num_splits : \A j \in 1..Len(perf[k]) : perf[k][j].epoch = 0
    /\ \A k \in 1..num_splits :
          closed[k] > 0 => (i = num_splits /\ closed[k] = 1)
    /\ pc \in {"done", "crashed"} =>
          /\ i = num_splits
          /\ \A k \in 1..num_splits : Len(perf[k]) = 1 /\ closed[k] = 1

\* the calls of the trace that are not forward passes, as <<kind, split>>
OgbResults ==
    LET NotForward(c) == c.kind # "forward"
        rs == SelectSeq(trace, NotForward)
    IN  [k \in 1..Len(rs) |-> <<rs[k].kind, rs[k].split>>]

ForwardCount(split) ==
    Cardinality({p \in 1..Len(trace) :
                    trace[p].kind = "forward" /\ trace[p].split = split})

RECURSIVE StepBatches(_)
\* the batches of the steps s, in the order in which they were accumulated
StepBatches(s) ==
    IF s = <<>> THEN <<>> ELSE StepBatches(SubSeq(s, 1, Len(s) - 1)) \o Last(s).batches

\* the 1-based batch indices up to k after which the claim wants an update
DueUpdates(k, n, a) == {j \in 1..k : j % a = 0 \/ j = n}

\* C12: in train_epoch and head_epoch over n >= 1 batches with
\* batch_accumulation a >= 1, optimizer.step is called exactly after the
\* batches whose 1-based index is a multiple of a and after the last batch,
\* ceil(n/a) times in all; every processed batch is in exactly one step or
\* still accumulated, and in exactly one step when the epoch ends; no step
\* holds more than a batches or a gradient from before the epoch; the
\* accumulated gradient is zero when the epoch ends.
C12_GradientAccumulation ==
    pc \in {"epoch_loop", "done"} =>
        LET n == Len(loaders[1])
            a == batch_accumulation
        IN  /\ {opt_steps[k].after : k \in 1..Len(opt_steps)} = DueUpdates(iter, n, a)
            /\ Len(opt_steps) = Cardinality(DueUpdates(iter, n, a))
            /\ StepBatches(opt_steps) \o grad = [j \in 1..iter |-> j]
            /\ \A k \in 1..Len(opt_steps) :
                   /\ Len(opt_steps[k].batches) \in 1..a
                   /\ Last(opt_steps[k].batches) = opt_steps[k].after
            /\ pc = "done" =>
                   /\ iter = n
                   /\ grad = <<>>
                   /\ Len(opt_steps) = (n + a - 1) \div a
                   /\ StepBatches(opt_steps) = [j \in 1..n |-> j]

\* a head_epoch has ended whose last update came after an incomplete group
\* of batches, after at least one update on a full group
C12_Witness ==
    /\ pc = "done"
    /\ epoch_fn = "head_epoch"
    /\ Len(opt_steps) >= 2
    /\ Len(opt_steps[1].batches) = batch_accumulation
    /\ Len(Last(opt_steps).batches) < batch_accumulation
    /\ Last(opt_steps).after = Len(loaders[1])
    /\ \E k \in 1..Len(trace) : trace[k].kind = "post_mp"

====
